---- MODULE Spec2Model ----
(***************************************************************************)
(* Cafe Electronico: the quietness monitor (monitor.py), the alarm rule    *)
(* (alarm.py) and the time flags (monitor.py, sensors.py).                 *)
(*                                                                         *)
(* Three specifications share the variables of this module:                *)
(*   Spec      a Monitor built from some Config, driven by tick calls;     *)
(*   RuleSpec  the rule evaluators called on every flag combination;       *)
(*   TimeSpec  the two time-flag calculators called on every time of day.  *)
(* Message strings are written in ASCII (the source decorates them with    *)
(* emoji and typographic dashes).                                          *)
(***************************************************************************)
EXTENDS Integers, Sequences, FiniteSets, TLC

\* ---------------------------------------------------------------- bounds
\* Largest small threshold tried for q10_minutes / q30_minutes.
MaxThreshold == 2
\* The quietness counter is a Python int (unbounded); ticks stop adding here.
MaxQuiet == 31

\* ------------------------------------------------------- program constants
Q10Default == 10
Q30Default == 30
M4Minutes == 4 * 60
M6Minutes == 6 * 60

\* -------------------------------------------------------------- datetimes
\* A datetime is reduced to its time of day; the date is never read.
DateTime(h, m, s, us) == [hour |-> h, minute |-> m, second |-> s, microsecond |-> us]

\* cli._parse_hhmm: now.replace(hour, minute, second=0, microsecond=0)
_parse_hhmm(hh, mm) == DateTime(hh, mm, 0, 0)

\* Times of day handed to Monitor.tick: around the 04:00 and 06:00 edges,
\* the start and the end of the day, and the times of the documented cases.
TickHours == {0, 2, 3, 4, 5, 6, 23}
TickMinutes == {0, 10, 20, 30, 59}
TickTimes == {_parse_hhmm(h, m) : h \in TickHours, m \in TickMinutes}

\* monitor._time_flags
_time_flags_strict(dt) ==
    LET minutes == dt.hour * 60 + dt.minute
    IN  << IF minutes > M4Minutes THEN 1 ELSE 0,
           IF minutes > M6Minutes THEN 1 ELSE 0 >>

_time_flags(dt) ==
    LET minutes == dt.hour * 60 + dt.minute
    IN  << IF minutes >= M4Minutes THEN 1 ELSE 0,
           IF minutes >= M6Minutes THEN 1 ELSE 0 >>

\* ----------------------------------------------------------------- Config
\* Config(q10_minutes, q30_minutes, ...): the thresholds are plain ints,
\* taken from the command line without any ordering check.
Thresholds == (0 .. MaxThreshold) \cup {Q10Default, Q30Default}
Configs == [q10_minutes : Thresholds, q30_minutes : Thresholds]

\* ---------------------------------------------------------------- Monitor
MsgQ30 == "ALARMA - Quietud >= 30 min (se quedo dormido con seguridad)"
MsgQ10BeforeM4 == "ALARMA - Quietud >= 10 min antes de las 4:00"
MsgQ10AfterM6 == "ALARMA - Quietud >= 10 min despues de las 6:00"
MsgTolerancia == "TOLERANCIA - Entre 4:00 y 6:00; se deja dormir un poco"
MsgNormal == "Todo normal - Sin quietud suficiente o hubo movimiento"

\* Monitor._eval_alarm
_eval_alarm_unguarded(q10, q30, m4, m6) ==
    IF q30 = 1 THEN <<1, "Q30">>
    ELSE IF q10 = 1 /\ (m4 = 0 \/ m6 = 1)
         THEN (IF m4 = 0 THEN <<1, "Q10&~M4">> ELSE <<1, "Q10&M6">>)
    ELSE <<0, "-">>

_eval_alarm_swapped(q10, q30, m4, m6) ==
    IF (m6 = 1 /\ m4 = 0) \/ (q30 = 1 /\ q10 = 0) THEN <<0, "-">>
    ELSE IF q30 = 1 THEN <<1, "Q30">>
    ELSE IF q10 = 1 /\ (m4 = 0 \/ m6 = 1)
         THEN (IF m4 = 0 THEN <<1, "Q10&M6">> ELSE <<1, "Q10&~M4">>)
    ELSE <<0, "-">>

_eval_alarm(q10, q30, m4, m6) ==
    IF (m6 = 1 /\ m4 = 0) \/ (q30 = 1 /\ q10 = 0) THEN <<0, "-">>
    ELSE IF q30 = 1 THEN <<1, "Q30">>
    ELSE IF q10 = 1 /\ (m4 = 0 \/ m6 = 1)
         THEN (IF m4 = 0 THEN <<1, "Q10&~M4">> ELSE <<1, "Q10&M6">>)
    ELSE <<0, "-">>

\* Monitor._messages
_messages_no_q10(q10, q30, m4, m6, a, reason) ==
    IF a = 1
    THEN (IF reason = "Q30" THEN MsgQ30
          ELSE IF reason = "Q10&~M4" THEN MsgQ10BeforeM4
          ELSE MsgQ10AfterM6)
    ELSE (IF m4 = 1 /\ m6 = 0 THEN MsgTolerancia ELSE MsgNormal)

_messages(q10, q30, m4, m6, a, reason) ==
    IF a = 1
    THEN (IF reason = "Q30" THEN MsgQ30
          ELSE IF reason = "Q10&~M4" THEN MsgQ10BeforeM4
          ELSE MsgQ10AfterM6)
    ELSE (IF q10 = 1 /\ m4 = 1 /\ m6 = 0 THEN MsgTolerancia ELSE MsgNormal)

\* Monitor.tick as a function of the monitor's fields and the arguments:
\* the new quiet_min and the returned dict.  The aliases of the dict
\* ('minutes_still', 'minutes', 'Q10', ..., 'msg') repeat the values below;
\* 'A' is kept because it is recomputed from a.  The CSV row appended at the
\* end is a projection of the same dict and is never read back.
tick_no_reset(self_cfg, self_quiet_min, is_still, dt) ==
    LET quiet  == IF is_still THEN self_quiet_min + 1 ELSE self_quiet_min
        q10    == IF quiet >= self_cfg.q10_minutes THEN 1 ELSE 0
        q30    == IF quiet >= self_cfg.q30_minutes THEN 1 ELSE 0
        tf     == _time_flags(dt)
        m4     == tf[1]
        m6     == tf[2]
        ev     == _eval_alarm(q10, q30, m4, m6)
        a      == ev[1]
        reason == ev[2]
        human  == _messages(q10, q30, m4, m6, a, reason)
    IN  [quiet_min |-> quiet,
         result |-> [is_still |-> is_still, alarm |-> (a # 0), reason |-> reason,
                     human |-> human, q10 |-> q10, q30 |-> q30, m4 |-> m4,
                     m6 |-> m6, quiet |-> quiet, dt |-> dt,
                     A |-> IF a # 0 THEN 1 ELSE 0]]

tick(self_cfg, self_quiet_min, is_still, dt) ==
    LET quiet  == IF is_still THEN self_quiet_min + 1 ELSE 0
        q10    == IF quiet >= self_cfg.q10_minutes THEN 1 ELSE 0
        q30    == IF quiet >= self_cfg.q30_minutes THEN 1 ELSE 0
        tf     == _time_flags(dt)
        m4     == tf[1]
        m6     == tf[2]
        ev     == _eval_alarm(q10, q30, m4, m6)
        a      == ev[1]
        reason == ev[2]
        human  == _messages(q10, q30, m4, m6, a, reason)
    IN  [quiet_min |-> quiet,
         result |-> [is_still |-> is_still, alarm |-> (a # 0), reason |-> reason,
                     human |-> human, q10 |-> q10, q30 |-> q30, m4 |-> m4,
                     m6 |-> m6, quiet |-> quiet, dt |-> dt,
                     A |-> IF a # 0 THEN 1 ELSE 0]]

\* ------------------------------------------------------------- alarm.py
\* Python's short-circuit operators return one of their operands.
PyOr(a, b) == IF a THEN a ELSE b
PyAnd(a, b) == IF a THEN b ELSE a

\* alarm.AlarmInputs
AlarmInputs(q10, q30, m4, m6) == [q10 |-> q10, q30 |-> q30, m4 |-> m4, m6 |-> m6]

\* alarm._validate_combinations: the errors collected; a non-empty list is
\* raised as ValueError("; ".join(errors)).
_validate_combinations_m_only(q10, q30, m4, m6) ==
    (IF m6 /\ ~m4 THEN <<"Combinacion invalida: M6=1 y M4=0">> ELSE <<>>)

_validate_combinations(q10, q30, m4, m6) ==
    (IF m6 /\ ~m4 THEN <<"Combinacion invalida: M6=1 y M4=0">> ELSE <<>>)
    \o (IF q30 /\ ~q10 THEN <<"Combinacion invalida: Q30=1 y Q10=0">> ELSE <<>>)

\* alarm._warn_on_inconsistent: the warnings logged; never raises.
_warn_on_inconsistent(q10, q30, m4, m6) ==
    (IF m6 /\ ~m4 THEN <<"Entrada inconsistente detectada: M6=1 y M4=0">> ELSE <<>>)
    \o (IF q30 /\ ~q10 THEN <<"Entrada inconsistente detectada: Q30=1 y Q10=0">> ELSE <<>>)

\* alarm.compute_alarm: the outcome of one call.  ret holds the returned
\* value, and is empty when the call raised.
compute_alarm_and_m6(q10, q30, m4, m6, strict) ==
    LET errors == IF strict THEN _validate_combinations(q10, q30, m4, m6) ELSE <<>>
        warned == IF strict THEN <<>> ELSE _warn_on_inconsistent(q10, q30, m4, m6)
        a      == PyOr(q30, PyAnd(q10, PyAnd(~m4, m6)))
    IN  IF errors # <<>>
        THEN [raised |-> TRUE, errors |-> errors, warnings |-> warned, ret |-> {}]
        ELSE [raised |-> FALSE, errors |-> errors, warnings |-> warned, ret |-> {a}]

compute_alarm(q10, q30, m4, m6, strict) ==
    LET errors == IF strict THEN _validate_combinations(q10, q30, m4, m6) ELSE <<>>
        warned == IF strict THEN <<>> ELSE _warn_on_inconsistent(q10, q30, m4, m6)
        a      == PyOr(q30, PyAnd(q10, PyOr(~m4, m6)))
    IN  IF errors # <<>>
        THEN [raised |-> TRUE, errors |-> errors, warnings |-> warned, ret |-> {}]
        ELSE [raised |-> FALSE, errors |-> errors, warnings |-> warned, ret |-> {a}]

\* alarm.compute_alarm_from
compute_alarm_from(inputs, strict) ==
    compute_alarm(inputs.q10, inputs.q30, inputs.m4, inputs.m6, strict)

\* ----------------------------------------------------------- sensors.py
\* Python's lexicographic >= on tuples of equal length.
RECURSIVE TupleGE(_, _)
TupleGE(a, b) ==
    IF a = <<>> THEN TRUE
    ELSE IF Head(a) # Head(b) THEN Head(a) > Head(b)
    ELSE TupleGE(Tail(a), Tail(b))

\* datetime.time(hour, minute): second and microsecond default to 0
time(h, m) == DateTime(h, m, 0, 0)

\* sensors._is_on_or_after
_is_on_or_after(t, ref) ==
    TupleGE(<<t.hour, t.minute, t.second, t.microsecond>>,
            <<ref.hour, ref.minute, ref.second, ref.microsecond>>)

\* sensors.TimeFlags
TimeFlags(m4, m6) == [m4 |-> m4, m6 |-> m6]

\* sensors.compute_time_flags
compute_time_flags(dt) ==
    TimeFlags(_is_on_or_after(dt, time(4, 0)), _is_on_or_after(dt, time(6, 0)))

\* Times of day for the time-flag calculators: every minute of the day, at
\* the first and the last instant of the minute.
Seconds == {0, 59}
Microseconds == {0, 999999}
DateTimes == {DateTime(h, m, s, us) : h \in 0 .. 23, m \in 0 .. 59,
                                      s \in Seconds, us \in Microseconds}

\* dt + timedelta(minutes=1), as the CLI advances its clock; the date that
\* changes at midnight is not part of a DateTime here.
PlusOneMinute(dt) ==
    LET m == (dt.hour * 60 + dt.minute + 1) % (24 * 60)
    IN  DateTime(m \div 60, m % 60, dt.second, dt.microsecond)

VARIABLES
    cfg,          \* Monitor.cfg
    quiet_min,    \* Monitor.quiet_min
    result,       \* the dict returned by the latest tick ({} before the first)
    still_run,    \* history: still ticks since the latest move tick
    alarm_call,   \* the latest call of compute_alarm[_from] and its outcome
    prev_call,    \* the call of compute_alarm[_from] before that one
    eval_call,    \* the latest direct call of Monitor._eval_alarm
    tf_dt,        \* the timestamp given to the time-flag calculators
    tf_monitor,   \* what monitor._time_flags returned for tf_dt ({}: not called)
    tf_sensors    \* what sensors.compute_time_flags returned for tf_dt

monitor_vars == <<cfg, quiet_min, result, still_run>>

rule_vars == <<alarm_call, prev_call, eval_call>>

time_vars == <<tf_dt, tf_monitor, tf_sensors>>

vars == <<cfg, quiet_min, result, still_run, alarm_call, prev_call, eval_call,
          tf_dt, tf_monitor, tf_sensors>>

\* ------------------------------------------------------- Spec: the Monitor
RuleIdle ==
    /\ alarm_call = {}
    /\ prev_call = {}
    /\ eval_call = {}

TimeIdle ==
    /\ tf_dt = DateTime(0, 0, 0, 0)
    /\ tf_monitor = {}
    /\ tf_sensors = {}

MonitorFresh ==
    /\ quiet_min = 0
    /\ result = {}
    /\ still_run = 0

\* Monitor.__init__, for any Config
Init ==
    /\ cfg \in Configs
    /\ MonitorFresh
    /\ RuleIdle
    /\ TimeIdle

MonitorTick(is_still, dt) ==
    /\ is_still => quiet_min < MaxQuiet
    /\ LET t == tick(cfg, quiet_min, is_still, dt)
       IN  /\ quiet_min' = t.quiet_min
           /\ result' = {t.result}
    /\ still_run' = IF is_still THEN still_run + 1 ELSE 0
    /\ UNCHANGED <<cfg, rule_vars, time_vars>>

TickStill == \E dt \in TickTimes : MonitorTick(TRUE, dt)

TickMove == \E dt \in TickTimes : MonitorTick(FALSE, dt)

Next == TickStill \/ TickMove

Spec == Init /\ [][Next]_vars

\* ------------------------------------------- RuleSpec: the rule evaluators
DefaultConfig == [q10_minutes |-> Q10Default, q30_minutes |-> Q30Default]

RuleInit ==
    /\ cfg = DefaultConfig
    /\ MonitorFresh
    /\ RuleIdle
    /\ TimeIdle

Bit == {0, 1}

CallComputeAlarm ==
    \E q10 \in BOOLEAN, q30 \in BOOLEAN, m4 \in BOOLEAN, m6 \in BOOLEAN, strict \in BOOLEAN :
        /\ alarm_call' = {[fn |-> "compute_alarm", q10 |-> q10, q30 |-> q30,
                           m4 |-> m4, m6 |-> m6, strict |-> strict,
                           out |-> compute_alarm(q10, q30, m4, m6, strict)]}
        /\ prev_call' = alarm_call
        /\ UNCHANGED <<eval_call, monitor_vars, time_vars>>

CallComputeAlarmFrom ==
    \E q10 \in BOOLEAN, q30 \in BOOLEAN, m4 \in BOOLEAN, m6 \in BOOLEAN, strict \in BOOLEAN :
        /\ alarm_call' = {[fn |-> "compute_alarm_from", q10 |-> q10, q30 |-> q30,
                           m4 |-> m4, m6 |-> m6, strict |-> strict,
                           out |-> compute_alarm_from(AlarmInputs(q10, q30, m4, m6), strict)]}
        /\ prev_call' = alarm_call
        /\ UNCHANGED <<eval_call, monitor_vars, time_vars>>

CallEvalAlarm ==
    \E q10 \in Bit, q30 \in Bit, m4 \in Bit, m6 \in Bit :
        /\ eval_call' = {[q10 |-> q10, q30 |-> q30, m4 |-> m4, m6 |-> m6,
                          out |-> _eval_alarm(q10, q30, m4, m6)]}
        /\ UNCHANGED <<alarm_call, prev_call, monitor_vars, time_vars>>

RuleNext == CallComputeAlarm \/ CallComputeAlarmFrom \/ CallEvalAlarm

RuleSpec == RuleInit /\ [][RuleNext]_vars

\* ------------------------------------------ TimeSpec: the time calculators
TimeInit ==
    /\ cfg = DefaultConfig
    /\ MonitorFresh
    /\ RuleIdle
    /\ tf_dt \in DateTimes
    /\ tf_monitor = {}
    /\ tf_sensors = {}

CallTimeFlags ==
    /\ tf_monitor' = {_time_flags(tf_dt)}
    /\ UNCHANGED <<tf_dt, tf_sensors, monitor_vars, rule_vars>>

CallComputeTimeFlags ==
    /\ tf_sensors' = {compute_time_flags(tf_dt)}
    /\ UNCHANGED <<tf_dt, tf_monitor, monitor_vars, rule_vars>>

AdvanceClock ==
    /\ tf_dt' = PlusOneMinute(tf_dt)
    /\ tf_monitor' = {}
    /\ tf_sensors' = {}
    /\ UNCHANGED <<monitor_vars, rule_vars>>

TimeNext == CallTimeFlags \/ CallComputeTimeFlags \/ AdvanceClock

TimeSpec == TimeInit /\ [][TimeNext]_vars

\* ================================================================ claims
\* Vocabulary of the claims, stated on the dict a tick returned.
BoolInt(b) == IF b THEN 1 ELSE 0

Before0400(dt) == dt.hour < 4

From0600(dt) == dt.hour >= 6

InTolerance(dt) == dt.hour >= 4 /\ dt.hour < 6

\* quiet counter at or above Q10 and below Q30
BetweenQ10AndQ30(r) == r.quiet >= cfg.q10_minutes /\ r.quiet < cfg.q30_minutes

FiringReasons == {"Q30", "Q10&~M4", "Q10&M6"}

DontCare(q10, q30, m4, m6) == (m6 /\ ~m4) \/ (q30 /\ ~q10)

SameFlags(c, d) == c.q10 = d.q10 /\ c.q30 = d.q30 /\ c.m4 = d.m4 /\ c.m6 = d.m6

\* C1 (Spec): the quietness counter, and the 'quiet' of the returned dict,
\* equal the number of consecutive still ticks since the latest move tick
\* (or since construction); a still tick leaves it at least 1, a move tick
\* leaves it 0, and it is never negative.
C1_QuietCountsStillRun ==
    /\ quiet_min = still_run
    /\ quiet_min >= 0
    /\ \A r \in result :
        /\ r.quiet = quiet_min
        /\ r.is_still => r.quiet >= 1
        /\ ~r.is_still => r.quiet = 0

C1_Witness ==
    /\ still_run = 12
    /\ \E r \in result : r.is_still /\ r.quiet = 12

\* C2 (Spec): Q30 dominates -- every tick whose resulting counter is at or
\* above cfg.q30_minutes returns alarm=True with reason 'Q30', whatever the
\* time of day and whatever Q10.
C2_Q30Dominates ==
    \A r \in result :
        r.quiet >= cfg.q30_minutes => r.alarm /\ r.A = 1 /\ r.reason = "Q30"

\* C3 (Spec): a tick in [04:00, 06:00) whose counter is at or above Q10 and
\* below Q30 has the alarm off, reason '-', and the TOLERANCIA message; and
\* the TOLERANCIA message is produced in no other case.
C3_ToleranceWindow ==
    \A r \in result :
        /\ (InTolerance(r.dt) /\ BetweenQ10AndQ30(r))
              => ~r.alarm /\ r.A = 0 /\ r.reason = "-" /\ r.human = MsgTolerancia
        /\ r.human = MsgTolerancia => InTolerance(r.dt) /\ BetweenQ10AndQ30(r)

C3_Witness ==
    /\ cfg = [q10_minutes |-> 10, q30_minutes |-> 30]
    /\ \E r \in result :
        /\ r.dt = DateTime(5, 10, 0, 0)
        /\ r.quiet = 12
        /\ r.A = 0
        /\ r.human = MsgTolerancia

\* C4 (Spec): a tick whose counter is at or above Q10 and below Q30 fires
\* with reason 'Q10&~M4' before 04:00 and with reason 'Q10&M6' from 06:00
\* on; a firing alarm carries exactly one of the three reason codes, and the
\* reason is '-' exactly when the alarm is off.
C4_Q10OutsideWindow ==
    \A r \in result :
        /\ (BetweenQ10AndQ30(r) /\ Before0400(r.dt))
              => r.alarm /\ r.A = 1 /\ r.reason = "Q10&~M4"
        /\ (BetweenQ10AndQ30(r) /\ From0600(r.dt))
              => r.alarm /\ r.A = 1 /\ r.reason = "Q10&M6"
        /\ r.alarm => r.reason \in FiringReasons
        /\ (r.reason = "-") <=> ~r.alarm

C4_Witness ==
    /\ cfg = [q10_minutes |-> 10, q30_minutes |-> 30]
    /\ \E r \in result :
        /\ r.dt = DateTime(2, 30, 0, 0)
        /\ r.quiet = 12
        /\ r.A = 1
        /\ r.reason = "Q10&~M4"

\* C5 (RuleSpec): without strict, compute_alarm never raises and returns
\* Q30 OR (Q10 AND (NOT M4 OR M6)) for each of the 16 flag combinations,
\* and compute_alarm_from returns the same value as compute_alarm.
C5_LenientRule ==
    \A c \in alarm_call :
        ~c.strict =>
            /\ ~c.out.raised
            /\ c.out.ret = {c.q30 \/ (c.q10 /\ (~c.m4 \/ c.m6))}
            /\ \A p \in prev_call :
                  (~p.strict /\ SameFlags(p, c)) => p.out.ret = c.out.ret

C5_Witness ==
    \E c \in alarm_call, p \in prev_call :
        /\ c.fn = "compute_alarm_from" /\ p.fn = "compute_alarm"
        /\ ~c.strict /\ ~p.strict /\ SameFlags(p, c)
        /\ c.q10 /\ ~c.q30 /\ c.m4 /\ c.m6
        /\ c.out.ret = {TRUE}

\* C6 (TimeSpec): for every time of day M4=1 exactly from 04:00 on and M6=1
\* exactly from 06:00 on, in both monitor._time_flags and
\* sensors.compute_time_flags, and the two yield the same pair of flags for
\* the same timestamp.
C6_TimeFlags ==
    /\ \A f \in tf_monitor :
        /\ f[1] \in {0, 1} /\ f[2] \in {0, 1}
        /\ (f[1] = 1) <=> tf_dt.hour >= 4
        /\ (f[2] = 1) <=> tf_dt.hour >= 6
    /\ \A g \in tf_sensors :
        /\ g.m4 <=> tf_dt.hour >= 4
        /\ g.m6 <=> tf_dt.hour >= 6
    /\ \A f \in tf_monitor, g \in tf_sensors :
        f = <<BoolInt(g.m4), BoolInt(g.m6)>>

C6_Witness ==
    /\ tf_dt = DateTime(4, 0, 0, 0)
    /\ tf_monitor = {<<1, 0>>}
    /\ tf_sensors = {TimeFlags(TRUE, FALSE)}

\* C7 (RuleSpec): with strict, compute_alarm raises ValueError, returning
\* nothing, exactly when M6=1 with M4=0 or Q30=1 with Q10=0; for every other
\* combination it returns what the call without strict returns.
C7_StrictValidation ==
    \A c \in alarm_call :
        c.strict =>
            /\ c.out.raised <=> DontCare(c.q10, c.q30, c.m4, c.m6)
            /\ c.out.raised => c.out.ret = {}
            /\ ~c.out.raised =>
                  /\ c.out.ret # {}
                  /\ \A p \in prev_call :
                        (~p.strict /\ SameFlags(p, c)) => p.out.ret = c.out.ret

C7_Witness ==
    \E c \in alarm_call :
        /\ c.strict
        /\ c.q30 /\ ~c.q10 /\ c.m4 /\ c.m6
        /\ c.out.raised
        /\ c.out.ret = {}

C8_TickNeverFiresOnDontCare ==
    \A r \in result :
        DontCare(r.q10 = 1, r.q30 = 1, r.m4 = 1, r.m6 = 1)
            => ~r.alarm /\ r.A = 0 /\ r.reason = "-"

\* C9 (Spec): the alarm bit a tick returns equals compute_alarm evaluated on
\* the flags of that same tick, Q30 OR (Q10 AND (NOT M4 OR M6)).
C9_EvaluatorsAgree ==
    \A r \in result :
        compute_alarm(r.q10 = 1, r.q30 = 1, r.m4 = 1, r.m6 = 1, FALSE).ret = {r.alarm}

====
